---- MODULE Spec2Model ----
(***************************************************************************)
(* Model of utils.py of semantic-embeddings: the learning-rate schedule    *)
(* factory get_lr_schedule with the four schedules it builds, and the      *)
(* nearest-centroid accuracy metric nn_accuracy.                           *)
(*                                                                         *)
(* Units.  Learning rates are integers in units of 1e-6 (0.1 = 100000).    *)
(* Monitored metric values are integers in units of 1e-4.  Embedding       *)
(* coordinates are integers in units of 1/2000 (10.0 = 20000), so squared  *)
(* distances are in units of 1/4000000 and 1e-6 is 4 of them.              *)
(***************************************************************************)
EXTENDS Integers, Sequences, FiniteSets, TLC

VARIABLES
    cfg,        \* the dict object a caller owns and may pass as schedule_args
    dflt,       \* the dict object bound to the default value schedule_args = {}
    call,       \* the arguments of the last get_lr_schedule call
    ret,        \* what the last get_lr_schedule call returned or raised
    cb,         \* the mutable state of the callback being driven by the host loop
    lr,         \* the optimizer's learning rate as the callback last set it
    nn          \* the last nn_accuracy evaluation: embedding, y_true, y_pred, output

vars == <<cfg, dflt, call, ret, cb, lr, nn>>

None == [status |-> "none", n |-> 0]

-----------------------------------------------------------------------------
(* Bounds of the model *)

MaxCalls == 2        \* calls of get_lr_schedule in one run
MaxBaseLen == 2      \* largest sgdr_base_len a caller supplies
MaxMul == 2          \* largest sgdr_mul a caller supplies
MaxStepLen == 2      \* largest clr_step_len a caller supplies
MaxPatience == 2     \* largest sgd_patience a caller supplies
MaxMetric == 3       \* largest monitored metric value, in units of 1e-4
MaxHistory == 5      \* epochs of metric history fed to the plateau callback
MaxBatch == 2        \* samples in one evaluation batch

-----------------------------------------------------------------------------
(* Program constants, learning rates in units of 1e-6 *)

SgdPatienceDefault == 10
SgdMinLrDefault == 100
SgdEpsilon == 1
SgdEpochs == 200
SgdrBaseLenDefault == 12
SgdrMulDefault == 2
SgdrMaxLrDefault == 100000
SgdrMinLr == 1
SgdrCycles == 5
ClrStepLenDefault == 12
ClrMinLrDefault == 10
ClrMaxLrDefault == 100000
ClrEpochsFactor == 20
ResnetEpochs == 164
ResnetDrop2 == 120
ResnetDrop1 == 80
ResnetWarmup == 1
ResnetLrFinal == 1000
ResnetLrMid == 10000
ResnetLrHigh == 100000
ResnetLrWarmup == 10000

-----------------------------------------------------------------------------
(* Strings as sequences of characters, and str.lower() *)

UpperChars == <<"A","B","C","D","E","F","G","H","I","J","K","L","M",
                "N","O","P","Q","R","S","T","U","V","W","X","Y","Z">>
LowerChars == <<"a","b","c","d","e","f","g","h","i","j","k","l","m",
                "n","o","p","q","r","s","t","u","v","w","x","y","z">>

OtherChars == {"-", "_", " "}

Chars == {UpperChars[i] : i \in 1..26} \cup {LowerChars[i] : i \in 1..26} \cup OtherChars

\* the lower-case form of each character: letters A-Z map to a-z, all else to itself
LowerTable ==
    [c \in Chars |->
        IF \E i \in 1..26 : UpperChars[i] = c
        THEN LowerChars[CHOOSE i \in 1..26 : UpperChars[i] = c]
        ELSE c]

UpperTable ==
    [c \in Chars |->
        IF \E i \in 1..26 : LowerChars[i] = c
        THEN UpperChars[CHOOSE i \in 1..26 : LowerChars[i] = c]
        ELSE c]

LowerChar(c) == LowerTable[c]

UpperChar(c) == UpperTable[c]

LowerNoOp(s) == s

lower(s) == [i \in 1..Len(s) |-> LowerChar(s[i])]

StrSgd == <<"s","g","d">>
StrSgdr == <<"s","g","d","r">>
StrClr == <<"c","l","r">>
StrResnet == <<"r","e","s","n","e","t","-","s","c","h","e","d","u","l","e">>

-----------------------------------------------------------------------------
(* Dicts are functions whose domain is the set of keys present *)

EmptyDict == [k \in {} |-> 0]

Keys == {"sgd_patience", "sgd_min_lr",
         "sgdr_base_len", "sgdr_mul", "sgdr_max_lr", "sgdr_min_lr",
         "clr_step_len", "clr_min_lr", "clr_max_lr"}

\* if key not in schedule_args: schedule_args[key] = value
FillAlways(args, key, value) ==
    [k \in DOMAIN args \cup {key} |-> IF k = key THEN value ELSE args[k]]

FillDefault(args, key, value) ==
    IF key \in DOMAIN args THEN args ELSE args @@ (key :> value)

RECURSIVE Pow(_, _)
Pow(b, e) == IF e = 0 THEN 1 ELSE b * Pow(b, e - 1)

RECURSIVE SumTo(_, _, _)
\* sum(base_len * mul ** i for i in range(n))
SumTo(base_len, mul, n) ==
    IF n = 0 THEN 0 ELSE SumTo(base_len, mul, n - 1) + base_len * Pow(mul, n - 1)

-----------------------------------------------------------------------------
(* get_lr_schedule, branch by branch.  Each branch yields the dict as the   *)
(* call leaves it (args) and the value returned or the exception raised.    *)

SgdArgs(a) ==
    FillDefault(FillDefault(a, "sgd_patience", SgdPatienceDefault),
                "sgd_min_lr", SgdMinLrDefault)

SgdCallbackNoFloor(a) ==
    [type |-> "ReduceLROnPlateau", monitor |-> "val_loss",
     patience |-> a["sgd_patience"], epsilon |-> SgdEpsilon, min_lr |-> 0]

SgdCallback(a) ==
    [type |-> "ReduceLROnPlateau", monitor |-> "val_loss",
     patience |-> a["sgd_patience"], epsilon |-> SgdEpsilon,
     min_lr |-> a["sgd_min_lr"]]

SgdBranch(a0) ==
    LET a == SgdArgs(a0)
    IN  [args |-> a,
         ret |-> [status |-> "ok", callback |-> SgdCallback(a), epochs |-> SgdEpochs]]

SgdrArgs(a) ==
    FillDefault(FillDefault(FillDefault(a, "sgdr_base_len", SgdrBaseLenDefault),
                            "sgdr_mul", SgdrMulDefault),
                "sgdr_max_lr", SgdrMaxLrDefault)

SgdrCallback(a) ==
    [type |-> "SGDR", min_lr |-> SgdrMinLr, max_lr |-> a["sgdr_max_lr"],
     base_epochs |-> a["sgdr_base_len"], mul_epochs |-> a["sgdr_mul"]]

SgdrEpochsOneShort(a) == SumTo(a["sgdr_base_len"], a["sgdr_mul"], SgdrCycles - 1)

SgdrEpochs(a) == SumTo(a["sgdr_base_len"], a["sgdr_mul"], SgdrCycles)

SgdrBranch(a0) ==
    LET a == SgdrArgs(a0)
    IN  [args |-> a,
         ret |-> [status |-> "ok", callback |-> SgdrCallback(a), epochs |-> SgdrEpochs(a)]]

ClrArgs(a) ==
    FillDefault(FillDefault(FillDefault(a, "clr_step_len", ClrStepLenDefault),
                            "clr_min_lr", ClrMinLrDefault),
                "clr_max_lr", ClrMaxLrDefault)

ClrStepSizeCeil(a, num_samples, batch_size) ==
    a["clr_step_len"] * ((num_samples + batch_size - 1) \div batch_size)

ClrStepSize(a, num_samples, batch_size) ==
    a["clr_step_len"] * (num_samples \div batch_size)

ClrCallback(a, num_samples, batch_size) ==
    [type |-> "CyclicLR", base_lr |-> a["clr_min_lr"], max_lr |-> a["clr_max_lr"],
     step_size |-> ClrStepSize(a, num_samples, batch_size), mode |-> "triangular"]

ClrEpochsPerSample(a, num_samples, batch_size) ==
    a["clr_step_len"] * ClrEpochsFactor * (num_samples \div batch_size)

ClrEpochs(a, num_samples, batch_size) == a["clr_step_len"] * ClrEpochsFactor

ClrBranch(a0, num_samples, batch_size) ==
    LET a == ClrArgs(a0)
    IN  [args |-> a,
         ret |-> IF batch_size = 0
                 THEN [status |-> "ZeroDivisionError"]
                 ELSE [status |-> "ok",
                       callback |-> ClrCallback(a, num_samples, batch_size),
                       epochs |-> ClrEpochs(a, num_samples, batch_size)]]

resnet_scheduler_late(epoch) ==
    IF epoch > ResnetDrop2 THEN ResnetLrFinal
    ELSE IF epoch > ResnetDrop1 THEN ResnetLrMid
    ELSE IF epoch >= ResnetWarmup THEN ResnetLrHigh
    ELSE ResnetLrWarmup

resnet_scheduler(epoch) ==
    IF epoch >= ResnetDrop2 THEN ResnetLrFinal
    ELSE IF epoch >= ResnetDrop1 THEN ResnetLrMid
    ELSE IF epoch >= ResnetWarmup THEN ResnetLrHigh
    ELSE ResnetLrWarmup

ResnetBranch(a0) ==
    [args |-> a0,
     ret |-> [status |-> "ok",
              callback |-> [type |-> "LearningRateScheduler",
                            schedule |-> "resnet_scheduler"],
              epochs |-> ResnetEpochs]]

get_lr_schedule(schedule, num_samples, batch_size, schedule_args) ==
    IF lower(schedule) = StrSgd THEN SgdBranch(schedule_args)
    ELSE IF lower(schedule) = StrSgdr THEN SgdrBranch(schedule_args)
    ELSE IF lower(schedule) = StrClr THEN ClrBranch(schedule_args, num_samples, batch_size)
    ELSE IF lower(schedule) = StrResnet THEN ResnetBranch(schedule_args)
    ELSE [args |-> schedule_args, ret |-> [status |-> "ValueError"]]

-----------------------------------------------------------------------------
(* The call as a step: arg says whether the caller passes its own dict or   *)
(* omits schedule_args, in which case the function's default object is used.*)

Build(schedule, num_samples, batch_size, arg) ==
    LET passed == IF arg = "caller" THEN cfg ELSE dflt
        r == get_lr_schedule(schedule, num_samples, batch_size, passed)
    IN  /\ cfg' = IF arg = "caller" THEN r.args ELSE cfg
        /\ dflt' = IF arg = "caller" THEN dflt ELSE r.args
        /\ call' = [status |-> "called", n |-> call.n + 1, schedule |-> schedule,
                    num_samples |-> num_samples, batch_size |-> batch_size,
                    arg |-> arg, given |-> passed]
        /\ ret' = r.ret

-----------------------------------------------------------------------------
(* Inputs of the factory *)

Vals(k) ==
    CASE k = "sgd_patience"  -> 0..MaxPatience
      [] k = "sgd_min_lr"    -> {10, 1000}
      [] k = "sgdr_base_len" -> 0..MaxBaseLen
      [] k = "sgdr_mul"      -> 1..(MaxMul + 1)
      [] k = "sgdr_max_lr"   -> {1, 50000}
      [] k = "sgdr_min_lr"   -> {1000}
      [] k = "clr_step_len"  -> 0..MaxStepLen
      [] k = "clr_min_lr"    -> {100}
      [] k = "clr_max_lr"    -> {100, 50000}

\* every dict over exactly the keys S, each option within its values
DictsOver(S) == {d \in [S -> UNION {Vals(k) : k \in S}] : \A k \in S : d[k] \in Vals(k)}

\* every sparse dict over the given keys
SparseDicts(keys) == UNION {DictsOver(S) : S \in SUBSET keys}

SgdKeys == {"sgd_patience", "sgd_min_lr"}
SgdrKeys == {"sgdr_base_len", "sgdr_mul", "sgdr_max_lr", "sgdr_min_lr"}
ClrKeys == {"clr_step_len", "clr_min_lr", "clr_max_lr"}

\* the caller's dict holds options of one schedule
CallerDicts == SparseDicts(SgdKeys) \cup SparseDicts(SgdrKeys) \cup SparseDicts(ClrKeys)

BuildNames ==
    {<<"S","G","D">>, <<"s","g","d","r">>, <<"C","l","r">>,
     <<"R","e","s","N","e","t","-","S","c","h","e","d","u","l","e">>,
     <<"a","d","a","m">>}

\* <<num_samples, batch_size>>
Loads == {<<8, 4>>, <<6, 4>>, <<2, 4>>, <<8, 0>>}
ArgModes == {"caller", "default"}

\* every letter-casing of the lower-case word w
Casings(w) ==
    {[i \in 1..Len(w) |-> IF i \in U THEN UpperChar(w[i]) ELSE w[i]] :
     U \in SUBSET (1..Len(w))}

OtherNames ==
    {<< >>, <<"a","d","a","m">>, <<"s","g">>, <<"s","g","d"," ">>,
     <<"S","G","D","R","R">>, <<"c","l","r","s">>, <<"s","-","g","d">>,
     <<"r","e","s","n","e","t">>,
     <<"r","e","s","n","e","t","_","s","c","h","e","d","u","l","e">>,
     <<"R","e","s","N","e","t","S","c","h","e","d","u","l","e">>}

AllNames ==
    Casings(StrSgd) \cup Casings(StrSgdr) \cup Casings(StrClr)
        \cup Casings(StrResnet) \cup OtherNames

-----------------------------------------------------------------------------
(* SpecBuild: a caller holding one sparse dict calls the factory any number *)
(* of times, passing its dict or omitting schedule_args.                    *)

InitIdle ==
    /\ dflt = EmptyDict
    /\ call = None
    /\ ret = None
    /\ cb = None
    /\ lr = 0
    /\ nn = None

InitBuild ==
    /\ cfg \in CallerDicts
    /\ InitIdle

CallFactory ==
    /\ call.n < MaxCalls
    /\ \E schedule \in BuildNames, load \in Loads, arg \in ArgModes :
            Build(schedule, load[1], load[2], arg)
    /\ UNCHANGED <<cb, lr, nn>>

NextBuild == CallFactory

SpecBuild == InitBuild /\ [][NextBuild]_vars

(* SpecNames: the factory called with every spelling of the schedule name. *)

InitNames ==
    /\ cfg = EmptyDict
    /\ InitIdle

CallByName ==
    /\ call = None
    /\ \E schedule \in AllNames, arg \in ArgModes :
            Build(schedule, 8, 4, arg)
    /\ UNCHANGED <<cb, lr, nn>>

NextNames == CallByName

SpecNames == InitNames /\ [][NextNames]_vars

-----------------------------------------------------------------------------
(* Properties of the factory *)

\* s is the word w in some letter-casing
IsCasing(s, w) ==
    /\ Len(s) = Len(w)
    /\ \A i \in 1..Len(w) : s[i] = w[i] \/ s[i] = UpperChar(w[i])

\* the option as the caller gave it, or the documented default
Opt(given, key, default) == IF key \in DOMAIN given THEN given[key] ELSE default

Called == call.status = "called"

\* what the caller supplied: its dict as passed, nothing when it omitted the config
Supplied == IF call.arg = "caller" THEN call.given ELSE EmptyDict

Returned == Called /\ ret.status = "ok"

Built(type) == Returned /\ ret.callback.type = type

\* C2: every letter-casing of SGD, SGDR, CLR and ResNet-Schedule selects Plateau,
\* WarmRestart, Cyclic and StepDecay; every other name raises the unknown-schedule
\* error and yields neither a schedule nor a horizon.
C2_NameSelectsVariant ==
    Called =>
        IF IsCasing(call.schedule, StrSgd) THEN Built("ReduceLROnPlateau")
        ELSE IF IsCasing(call.schedule, StrSgdr) THEN Built("SGDR")
        ELSE IF IsCasing(call.schedule, StrClr) THEN Built("CyclicLR")
        ELSE IF IsCasing(call.schedule, StrResnet) THEN Built("LearningRateScheduler")
        ELSE ret = [status |-> "ValueError"]

C2_Witness ==
    /\ Called
    /\ call.schedule = <<"s","G","d","R">>
    /\ Built("SGDR")

PlateauOptionsAsGiven ==
    Built("ReduceLROnPlateau") =>
        /\ ret.callback.patience = Opt(Supplied, "sgd_patience", 10)
        /\ ret.callback.min_lr = Opt(Supplied, "sgd_min_lr", 100)

WarmRestartOptionsAsGiven ==
    Built("SGDR") =>
        /\ ret.callback.base_epochs = Opt(Supplied, "sgdr_base_len", 12)
        /\ ret.callback.mul_epochs = Opt(Supplied, "sgdr_mul", 2)
        /\ ret.callback.max_lr = Opt(Supplied, "sgdr_max_lr", 100000)

CyclicOptionsAsGiven ==
    Built("CyclicLR") =>
        /\ ret.callback.step_size =
              Opt(Supplied, "clr_step_len", 12) * (call.num_samples \div call.batch_size)
        /\ ret.callback.base_lr = Opt(Supplied, "clr_min_lr", 10)
        /\ ret.callback.max_lr = Opt(Supplied, "clr_max_lr", 100000)

\* C3 as stated: every option, WarmRestart's min_lr included, takes the caller's
\* value when supplied and its documented default when left unset.
C3_AsStated ==
    /\ PlateauOptionsAsGiven
    /\ WarmRestartOptionsAsGiven
    /\ CyclicOptionsAsGiven
    /\ Built("SGDR") => ret.callback.min_lr = Opt(Supplied, "sgdr_min_lr", 1)

\* C3 amended: every option the factory reads takes the caller's value when
\* supplied and its documented default when left unset; WarmRestart's min_lr is
\* not such an option: it is 1e-6 whatever the caller's dict holds.
C3_OptionsAsGivenOrDefault ==
    /\ PlateauOptionsAsGiven
    /\ WarmRestartOptionsAsGiven
    /\ CyclicOptionsAsGiven
    /\ Built("SGDR") => ret.callback.min_lr = 1

C3_Witness ==
    /\ Built("SGDR")
    /\ DOMAIN Supplied = {"sgdr_mul", "sgdr_min_lr"}
    /\ Supplied["sgdr_mul"] = 3
    /\ ret.callback.mul_epochs = 3
    /\ ret.callback.base_epochs = 12
    /\ ret.callback.min_lr = 1

\* the horizon the documentation gives for the schedule and its options
Horizon(type, given) ==
    CASE type = "ReduceLROnPlateau" -> 200
      [] type = "LearningRateScheduler" -> 164
      [] type = "CyclicLR" -> Opt(given, "clr_step_len", 12) * 20
      [] type = "SGDR" ->
            LET b == Opt(given, "sgdr_base_len", 12)
                m == Opt(given, "sgdr_mul", 2)
            IN  b + b * m + b * m * m + b * m * m * m + b * m * m * m * m

\* C4: the horizon returned depends on the schedule and its options only, never on
\* num_samples or batch_size: 200 for Plateau, 164 for StepDecay, step_len * 20 for
\* Cyclic, the sum of base_len * mul^i for i = 0..4 for WarmRestart (372 by default).
C4_HorizonFromConfigOnly ==
    Returned => ret.epochs = Horizon(ret.callback.type, Supplied)

C4_Witness ==
    /\ Built("SGDR")
    /\ Supplied = EmptyDict
    /\ call.num_samples = 2
    /\ ret.epochs = 372

\* a supplied option of the selected schedule is outside its documented domain
OutOfDomain ==
    LET g == Supplied
        low(key) == key \in DOMAIN g /\ g[key] <= 0
    IN  \/ IsCasing(call.schedule, StrSgd) /\ low("sgd_patience")
        \/ /\ IsCasing(call.schedule, StrSgdr)
           /\ \/ low("sgdr_base_len")
              \/ "sgdr_mul" \in DOMAIN g /\ g["sgdr_mul"] <= 1
              \/ "sgdr_max_lr" \in DOMAIN g /\ g["sgdr_max_lr"] <= 1
        \/ /\ IsCasing(call.schedule, StrClr)
           /\ \/ low("clr_step_len")
              \/ /\ {"clr_min_lr", "clr_max_lr"} \cap DOMAIN g # {}
                 /\ Opt(g, "clr_max_lr", 100000) <= Opt(g, "clr_min_lr", 10)

\* C6: the factory fails with InvalidConfig, returning no schedule, whenever a
\* supplied option is outside its documented domain.
C6_InvalidConfigRaised ==
    (Called /\ OutOfDomain) => ret = [status |-> "InvalidConfig"]

\* C10: the dict a caller passes has the same keys and values after the call as
\* before it, and nothing a call defaulted is left behind for a later call that
\* omits the config.
C10_ConfigUntouched ==
    Called =>
        /\ call.arg = "caller" => cfg = call.given
        /\ dflt = EmptyDict

-----------------------------------------------------------------------------
(* SpecStep: the ResNet schedule built under any spelling of its name and    *)
(* driven by the host loop, which asks it for the rate as each epoch begins, *)
(* for the number of epochs the factory returned.                            *)

StepNames ==
    {<<"R","e","s","N","e","t","-","S","c","h","e","d","u","l","e">>, StrResnet,
     [i \in 1..Len(StrResnet) |-> UpperChar(StrResnet[i])]}

InitStep ==
    /\ cfg = EmptyDict
    /\ InitIdle

BuildStep ==
    /\ call = None
    /\ \E schedule \in StepNames, load \in Loads : Build(schedule, load[1], load[2], "caller")
    /\ UNCHANGED <<cb, lr, nn>>

\* LearningRateScheduler.on_epoch_begin(epoch): lr = schedule(epoch)
StepEpochBegin ==
    /\ Built("LearningRateScheduler")
    /\ LET epoch == IF cb = None THEN 0 ELSE cb.epoch + 1
       IN  /\ epoch < ret.epochs
           /\ cb' = [status |-> "running", n |-> 0, epoch |-> epoch]
           /\ lr' = resnet_scheduler(epoch)
    /\ UNCHANGED <<cfg, dflt, call, ret, nn>>

NextStep == BuildStep \/ StepEpochBegin

SpecStep == InitStep /\ [][NextStep]_vars

\* C1: the StepDecay rate is 0.01 at epoch 0, 0.1 for 1 <= e < 80, 0.01 for
\* 80 <= e < 120 and 0.001 from epoch 120 on, and nothing else.
C1_StepDecayRate ==
    (Built("LearningRateScheduler") /\ cb.status = "running") =>
        /\ cb.epoch = 0 => lr = 10000
        /\ (1 <= cb.epoch /\ cb.epoch < 80) => lr = 100000
        /\ (80 <= cb.epoch /\ cb.epoch < 120) => lr = 10000
        /\ cb.epoch >= 120 => lr = 1000
        /\ lr \in {10000, 100000, 1000}

C1_Witness ==
    /\ Built("LearningRateScheduler")
    /\ cb.status = "running"
    /\ cb.epoch = 120
    /\ lr = 1000

-----------------------------------------------------------------------------
(* Rationals as [num, den] with den > 0 *)

Rat(n, d) == [num |-> n, den |-> d]
RatEq(a, b) == a.num * b.den = b.num * a.den
RatLeq(a, b) == a.num * b.den <= b.num * a.den
Abs(x) == IF x < 0 THEN -x ELSE x
Max(x, y) == IF x >= y THEN x ELSE y
Min(x, y) == IF x <= y THEN x ELSE y

-----------------------------------------------------------------------------
(* SpecClr: the cyclic schedule, built from a sparse dict of its options and *)
(* driven once per training iteration for the epochs the factory returned.   *)

\* rate = min_lr + (max_lr - min_lr) * max(0, 1 - x), with
\* cycle = floor(1 + iteration / (2 * step_size)) and
\* x = |iteration / step_size - 2 * cycle + 1|; here as a fraction over step_size
ClrRate(c, iteration) ==
    LET cycle == 1 + iteration \div (2 * c.step_size)
        xs == Abs(iteration - (2 * cycle - 1) * c.step_size)
    IN  Rat(c.base_lr * c.step_size + (c.max_lr - c.base_lr) * Max(0, c.step_size - xs),
            c.step_size)

InitClr ==
    /\ cfg \in SparseDicts(ClrKeys)
    /\ InitIdle

BuildClr ==
    /\ call = None
    /\ \E schedule \in Casings(StrClr), load \in Loads :
            Build(schedule, load[1], load[2], "caller")
    /\ UNCHANGED <<cb, lr, nn>>

\* training begins at iteration 0, where the rate is min_lr
ClrTrainBegin ==
    /\ Built("CyclicLR")
    /\ cb = None
    /\ cb' = [status |-> "running", n |-> 0, clr_iterations |-> 0]
    /\ lr' = Rat(ret.callback.base_lr, 1)
    /\ UNCHANGED <<cfg, dflt, call, ret, nn>>

\* one training iteration ends: the iteration count advances and the rate is
\* recomputed; with step_size = 0 the formula divides by zero.  An epoch has
\* floor(num_samples / batch_size) iterations and at least one.
ClrBatchEnd ==
    /\ Built("CyclicLR")
    /\ cb.status = "running"
    /\ cb.clr_iterations < ret.epochs * Max(1, call.num_samples \div call.batch_size)
    /\ IF ret.callback.step_size = 0
       THEN /\ cb' = [cb EXCEPT !.status = "ZeroDivisionError"]
            /\ lr' = lr
       ELSE /\ cb' = [cb EXCEPT !.clr_iterations = @ + 1]
            /\ lr' = ClrRate(ret.callback, cb.clr_iterations + 1)
    /\ UNCHANGED <<cfg, dflt, call, ret, nn>>

NextClr == BuildClr \/ ClrTrainBegin \/ ClrBatchEnd

SpecClr == InitClr /\ [][NextClr]_vars

\* what C7 says of a running cyclic schedule at its current iteration
ClrShape ==
    LET c == ret.callback
        i == cb.clr_iterations
        lo == Rat(Opt(Supplied, "clr_min_lr", 10), 1)
        hi == Rat(Opt(Supplied, "clr_max_lr", 100000), 1)
    IN  /\ c.step_size =
              Opt(Supplied, "clr_step_len", 12) * (call.num_samples \div call.batch_size)
        /\ RatLeq(lo, lr) /\ RatLeq(lr, hi)
        /\ i = 0 => RatEq(lr, lo)
        /\ i = c.step_size => RatEq(lr, hi)
        /\ i = 2 * c.step_size => RatEq(lr, lo)
        /\ i >= 2 * c.step_size => RatEq(lr, ClrRate(c, i - 2 * c.step_size))

ClrRunning == Built("CyclicLR") /\ cb.status = "running"

ClrOptionsValid ==
    /\ Opt(Supplied, "clr_step_len", 12) >= 1
    /\ Opt(Supplied, "clr_min_lr", 10) < Opt(Supplied, "clr_max_lr", 100000)

\* C7 as stated: with step_len >= 1, num_samples >= 1, batch_size >= 1 and
\* min_lr < max_lr the half-cycle is step_len * floor(num_samples / batch_size)
\* iterations, the rate stays within [min_lr, max_lr], is min_lr at 0 and at
\* 2 * step_size, max_lr at step_size, and repeats every 2 * step_size iterations.
C7_AsStated ==
    (ClrRunning /\ ClrOptionsValid /\ call.num_samples >= 1 /\ call.batch_size >= 1)
        => ClrShape

\* C7 amended: the same, for num_samples >= batch_size >= 1, so that an epoch
\* has at least one iteration and step_size >= 1.
C7_TriangularWave ==
    (ClrRunning /\ ClrOptionsValid /\ call.batch_size >= 1
        /\ call.num_samples >= call.batch_size)
        => ClrShape

C7_Witness ==
    /\ ClrRunning
    /\ ClrOptionsValid
    /\ call.num_samples = 8
    /\ Supplied = ("clr_step_len" :> 2)
    /\ ret.callback.step_size = 4
    /\ cb.clr_iterations = 12
    /\ RatEq(lr, Rat(100000, 1))

-----------------------------------------------------------------------------
(* SpecSgdr: the warm-restart schedule, built from a sparse dict of its       *)
(* options within their documented domains and advanced once per epoch for   *)
(* the epochs the factory returned.                                          *)

\* cos(pi * t / T) in thousandths, by Bhaskara's rational approximation
\* cos(pi x) ~ (1 - 4 x^2) / (1 + x^2) on 0 <= x <= 1/2, mirrored on 1/2 < x <= 1;
\* exact at x = 0, 1/3, 1/2, 2/3, 1 up to the rounding to thousandths
CosPiMilli(t, T) ==
    LET q == (1000 * t) \div T
        half(p) == (1000000 - 4 * p * p) \div ((1000000 + p * p) \div 1000)
    IN  IF q <= 500 THEN half(q) ELSE -half(1000 - q)

\* rate = min_lr + 0.5 * (max_lr - min_lr) * (1 + cos(pi * t_cur / T_i))
SgdrRate(c, t_cur, T_i) ==
    c.min_lr + ((c.max_lr - c.min_lr) * (1000 + CosPiMilli(t_cur, T_i))) \div 2000

SgdrDomain(d) ==
    /\ "sgdr_base_len" \in DOMAIN d => d["sgdr_base_len"] >= 1
    /\ "sgdr_mul" \in DOMAIN d => d["sgdr_mul"] > 1

InitSgdr ==
    /\ cfg \in {d \in SparseDicts(SgdrKeys) : SgdrDomain(d)}
    /\ InitIdle

BuildSgdr ==
    /\ call = None
    /\ \E schedule \in {StrSgdr, <<"S","G","D","R">>} : Build(schedule, 8, 4, "caller")
    /\ UNCHANGED <<cb, lr, nn>>

\* state at the start: t_cur = 0, T_i = base_len
SgdrTrainBegin ==
    /\ Built("SGDR")
    /\ cb = None
    /\ cb' = [status |-> "running", n |-> 0, t_cur |-> 0, T_i |-> ret.callback.base_epochs,
              epochs_done |-> 0, restarts |-> 0]
    /\ lr' = SgdrRate(ret.callback, 0, ret.callback.base_epochs)
    /\ UNCHANGED <<cfg, dflt, call, ret, nn>>

\* advance: increment t_cur; when it reaches T_i reset it to 0 and set
\* T_i <- T_i * mul
SgdrEpochEnd ==
    /\ Built("SGDR")
    /\ cb.status = "running"
    /\ cb.epochs_done < ret.epochs
    /\ LET restart == cb.t_cur + 1 = cb.T_i
           t == IF restart THEN 0 ELSE cb.t_cur + 1
           T == IF restart THEN cb.T_i * ret.callback.mul_epochs ELSE cb.T_i
       IN  /\ cb' = [cb EXCEPT !.t_cur = t, !.T_i = T,
                               !.epochs_done = @ + 1,
                               !.restarts = IF restart THEN @ + 1 ELSE @]
           /\ lr' = SgdrRate(ret.callback, t, T)
    /\ UNCHANGED <<cfg, dflt, call, ret, nn>>

NextSgdr == BuildSgdr \/ SgdrTrainBegin \/ SgdrEpochEnd

SpecSgdr == InitSgdr /\ [][NextSgdr]_vars

RECURSIVE Geometric(_, _, _)
\* b + b*m + ... + b*m^(k-1)
Geometric(b, m, k) == IF k = 0 THEN 0 ELSE b + m * Geometric(b, m, k - 1)

\* C8: started at t_cur = 0 and T_i = base_len and advanced once per epoch,
\* 0 <= t_cur < T_i always; t_cur is back at 0 exactly when a cycle is complete and
\* T_i is multiplied by mul then and only then, so that after k restarts
\* T_i = base_len * mul^k and the epochs done are the k complete cycles plus t_cur;
\* the rate at every t_cur = 0 is max_lr; and after the returned horizon of epochs
\* the fifth cycle has just been completed.
C8_WarmRestartCycles ==
    (Built("SGDR") /\ cb.status = "running") =>
        LET b == Opt(Supplied, "sgdr_base_len", 12)
            m == Opt(Supplied, "sgdr_mul", 2)
            k == cb.restarts
        IN  /\ 0 <= cb.t_cur /\ cb.t_cur < cb.T_i
            /\ cb.T_i = b * Pow(m, k)
            /\ cb.epochs_done = Geometric(b, m, k) + cb.t_cur
            /\ cb.t_cur = 0 => lr = Opt(Supplied, "sgdr_max_lr", 100000)
            /\ cb.epochs_done = ret.epochs =>
                  (cb.t_cur = 0 /\ k = 5 /\ cb.T_i = b * m * m * m * m * m)

C8_Witness ==
    /\ Built("SGDR")
    /\ cb.status = "running"
    /\ Supplied = EmptyDict
    /\ cb.epochs_done = 372
    /\ cb.t_cur = 0
    /\ cb.T_i = 384
    /\ lr = 100000

-----------------------------------------------------------------------------
(* SpecSgd: the plateau schedule, built from a sparse dict of its options     *)
(* within their documented domains and fed one metric value per epoch.       *)

\* the rate is multiplied by 1/10 at a reduction
PlateauFactorInverse == 10

Metrics == 0..MaxMetric

\* the optimizer's rate when training begins, set by the host
InitialRates == {1000, 100000}

SgdDomain(d) == "sgd_patience" \in DOMAIN d => d["sgd_patience"] >= 1

InitSgd ==
    /\ cfg \in {d \in SparseDicts(SgdKeys) : SgdDomain(d)}
    /\ InitIdle

BuildSgd ==
    /\ call = None
    /\ \E schedule \in {StrSgd, <<"S","G","D">>} : Build(schedule, 8, 4, "caller")
    /\ UNCHANGED <<cb, lr, nn>>

\* training begins: nothing seen yet, so any first value is the best so far
PlateauTrainBegin ==
    /\ Built("ReduceLROnPlateau")
    /\ cb = None
    /\ \E lr0 \in InitialRates :
          /\ lr0 >= ret.callback.min_lr
          /\ lr' = lr0
          /\ cb' = [status |-> "running", n |-> 0, best |-> << >>, wait |-> 0,
                    history |-> << >>, lr0 |-> lr0, prev_lr |-> lr0]
    /\ UNCHANGED <<cfg, dflt, call, ret, nn>>

\* lower is better, and an improvement must exceed the tolerance; best is << >>
\* until a value has been seen, then <<value>>
Improves(c, current, best) == best = << >> \/ current < best[1] - c.epsilon

\* multiply the rate by the reduction factor and clamp it to min_lr
PlateauReduce(c, rate) == Max(rate \div PlateauFactorInverse, c.min_lr)

\* an epoch ends with the monitored value `current`: track the best value seen;
\* after `patience` consecutive epochs without improvement reduce the rate and
\* reset the patience counter
PlateauEpochEnd(current) ==
    /\ Built("ReduceLROnPlateau")
    /\ cb.status = "running"
    /\ Len(cb.history) < MaxHistory
    /\ LET c == ret.callback
           better == Improves(c, current, cb.best)
           due == ~better /\ cb.wait + 1 >= c.patience
       IN  /\ lr' = IF due THEN PlateauReduce(c, lr) ELSE lr
           /\ cb' = [cb EXCEPT !.best = IF better THEN <<current>> ELSE @,
                               !.wait = IF better \/ due THEN 0 ELSE @ + 1,
                               !.history = Append(@, current),
                               !.prev_lr = lr]
    /\ UNCHANGED <<cfg, dflt, call, ret, nn>>

PlateauFeed == \E current \in Metrics : PlateauEpochEnd(current)

NextSgd == BuildSgd \/ PlateauTrainBegin \/ PlateauFeed

SpecSgd == InitSgd /\ [][NextSgd]_vars

PlateauRunning == Built("ReduceLROnPlateau") /\ cb.status = "running"

\* no value is better than the one before it
NonImproving(h) == \A i \in 1..(Len(h) - 1) : h[i + 1] >= h[i]

\* every value is better than the one before it
StrictlyImproving(h) == \A i \in 1..(Len(h) - 1) : h[i + 1] < h[i]

\* every value is better than the one before it by more than the tolerance 1e-4
ImprovingBeyondTolerance(h) == \A i \in 1..(Len(h) - 1) : h[i + 1] < h[i] - 1

\* the last epoch closed a run of `patience` non-improving epochs
RunComplete(h, patience) == Len(h) >= 2 /\ (Len(h) - 1) % patience = 0

\* C9 as stated: on a non-improving history the rate strictly decreases exactly at
\* the end of each patience-length run; the rate never goes below min_lr; on a
\* strictly improving history the rate never changes.
C9_AsStated ==
    PlateauRunning =>
        LET h == cb.history
            patience == Opt(Supplied, "sgd_patience", 10)
        IN  /\ (NonImproving(h) /\ Len(h) >= 2) =>
                  ((lr < cb.prev_lr) <=> RunComplete(h, patience))
            /\ lr >= Opt(Supplied, "sgd_min_lr", 100)
            /\ StrictlyImproving(h) => lr = cb.lr0

\* C9 amended: started at a rate >= min_lr, on a non-improving history the rate
\* strictly decreases exactly at the end of each patience-length run that begins
\* above min_lr, and at min_lr it stays; the rate never goes below min_lr; on a
\* history improving by more than the tolerance each epoch the rate never changes.
C9_PlateauReduction ==
    PlateauRunning =>
        LET h == cb.history
            patience == Opt(Supplied, "sgd_patience", 10)
            min_lr == Opt(Supplied, "sgd_min_lr", 100)
        IN  /\ (NonImproving(h) /\ Len(h) >= 2) =>
                  /\ (lr < cb.prev_lr) <=> (RunComplete(h, patience) /\ cb.prev_lr > min_lr)
                  /\ cb.prev_lr = min_lr => lr = min_lr
            /\ lr >= min_lr
            /\ ImprovingBeyondTolerance(h) => lr = cb.lr0

C9_Witness ==
    /\ PlateauRunning
    /\ Supplied = ("sgd_patience" :> 1) @@ ("sgd_min_lr" :> 1000)
    /\ cb.lr0 = 100000
    /\ cb.history = <<2, 2, 3, 3, 3>>
    /\ cb.prev_lr = 1000
    /\ lr = 1000

C9_WitnessImproving ==
    /\ PlateauRunning
    /\ cb.history = <<3, 1>>
    /\ lr = cb.lr0

-----------------------------------------------------------------------------
(* SpecNn: nn_accuracy(embedding) applied to one batch.  Vectors are          *)
(* sequences of coordinates in units of 1/2000; the embedding holds one      *)
(* centroid per class.                                                       *)

\* 1e-6 in units of 1/2000^2
NnTolerance == 4

CentroidVectors == {<<0, 0>>, <<3, 0>>, <<20000, 0>>, <<3, 2>>}
PredVectors == {<<2, 0>>, <<200, 0>>, <<2, 2>>}

\* two or three classes
Embeddings ==
    [1..2 -> CentroidVectors] \cup [1..3 -> CentroidVectors]

\* a batch is a sequence of <<y_true row, y_pred row>>
Samples == CentroidVectors \X PredVectors
Batches == UNION {[1..n -> Samples] : n \in 1..MaxBatch}

RECURSIVE SumSeq(_)
SumSeq(q) == IF q = << >> THEN 0 ELSE Head(q) + SumSeq(Tail(q))

RECURSIVE MinSeq(_)
MinSeq(q) == IF Len(q) = 1 THEN q[1] ELSE Min(Head(q), MinSeq(Tail(q)))

\* K.sum(K.square(v))
SquareSum(v) == SumSeq([d \in 1..Len(v) |-> v[d] * v[d]])

\* one entry of K.dot(y_pred, centroids)
Dot(u, v) == SumSeq([d \in 1..Len(u) |-> u[d] * v[d]])

\* K.sum(K.square(y_pred - y_true), axis = -1) for one row
squared_distance(y_true, y_pred) ==
    SumSeq([d \in 1..Len(y_pred) |-> (y_pred[d] - y_true[d]) * (y_pred[d] - y_true[d])])

ExpandedDistSingleDot(embedding, p) ==
    [k \in 1..Len(embedding) |->
        SquareSum(p) + SquareSum(embedding[k]) - Dot(p, embedding[k])]

\* one row of dist = pred_norm + centroids_norm - 2 * K.dot(y_pred, centroids)
ExpandedDist(embedding, p) ==
    [k \in 1..Len(embedding) |->
        SquareSum(p) + SquareSum(embedding[k]) - 2 * Dot(p, embedding[k])]

\* K.cast(K.less(K.abs(true_dist - K.min(dist, axis = -1)), 1e-6), K.floatx())
nn_accuracy(embedding, y_true, y_pred) ==
    [i \in 1..Len(y_pred) |->
        LET true_dist == squared_distance(y_true[i], y_pred[i])
            min_dist == MinSeq(ExpandedDist(embedding, y_pred[i]))
        IN  IF Abs(true_dist - min_dist) < NnTolerance THEN 1 ELSE 0]

InitNn ==
    /\ cfg = EmptyDict
    /\ dflt = EmptyDict
    /\ call = None
    /\ ret = None
    /\ cb = None
    /\ lr = 0
    /\ nn \in {[status |-> "metric", embedding |-> e] : e \in Embeddings}

Evaluate ==
    /\ nn.status = "metric"
    /\ \E batch \in Batches :
          LET y_true == [i \in 1..Len(batch) |-> batch[i][1]]
              y_pred == [i \in 1..Len(batch) |-> batch[i][2]]
          IN  nn' = [status |-> "evaluated", embedding |-> nn.embedding,
                     y_true |-> y_true, y_pred |-> y_pred,
                     acc |-> nn_accuracy(nn.embedding, y_true, y_pred)]
    /\ UNCHANGED <<cfg, dflt, call, ret, cb, lr>>

NextNn == Evaluate

SpecNn == InitNn /\ [][NextNn]_vars

Evaluated == nn.status = "evaluated"

Centroids == {nn.embedding[k] : k \in 1..Len(nn.embedding)}

\* each true embedding is the centroid of some class
TrueAreCentroids == \A i \in 1..Len(nn.y_true) : nn.y_true[i] \in Centroids

\* the squared distance from p to v, computed coordinate by coordinate
Apart(v, p) == SumSeq([d \in 1..Len(p) |-> (p[d] - v[d]) * (p[d] - v[d])])

\* some centroid is strictly closer to the prediction of sample i than the true one
StrictlyCloser(i) ==
    \E c \in Centroids : Apart(c, nn.y_pred[i]) < Apart(nn.y_true[i], nn.y_pred[i])

\* some centroid is closer to the prediction of sample i than the true one by
\* 1e-6 or more in squared distance
CloserBeyondTolerance(i) ==
    \E c \in Centroids :
        Apart(c, nn.y_pred[i]) + NnTolerance <= Apart(nn.y_true[i], nn.y_pred[i])

OneEntryPerSample ==
    /\ Len(nn.acc) = Len(nn.y_pred)
    /\ \A i \in 1..Len(nn.acc) : nn.acc[i] \in {0, 1}

====
